---- MODULE Spec2Model ----
(***************************************************************************)
(* Model of epma.py: read_data (ingestion of EPMA map files) and           *)
(* map_series (rendering of the element maps).                             *)
(*                                                                         *)
(* File names are sequences of one-character strings, so that the          *)
(* tokenisation done with str.split and negative indexing is computed.     *)
(* A Python dict is a sequence of <<key, value>> pairs in insertion order. *)
(***************************************************************************)
EXTENDS Integers, Sequences, FiniteSets, TLC

VARIABLES
    \* ---- read_data ----
    file_location,  \* argument: directory prefix (characters)
    dirList,        \* names of the files present in the directory
    exclude,        \* argument: labels to leave out
    maps,           \* glob result "*.txt", in discovery order
    elements,       \* glob result "*.pm", then the dict index -> label
    pmOrder,        \* the "*.pm" paths in the order glob discovered them
    rdDatas,        \* the dict under construction / returned
    rdi,            \* position of the for loop over maps
    rdpc,           \* control point of read_data
    \* ---- map_series ----
    datas,          \* argument: dict element -> shape of its array
    figure_grid,    \* argument: None or <<rows, columns>>
    limits,         \* argument: dict element -> <<min, max>>
    arg_color_map,  \* argument color_map as the caller passed it
    color_map,      \* the local color_map: the argument, then the dict element -> name
    mesh,           \* shape of x_map / y_map
    itr,            \* position of the loop over datas.items()
    gi, gj,         \* i, j of the combined figure
    gk,             \* position of the combined figure's loop over datas
    open,           \* figures currently open in pyplot
    files,          \* image files written to disk
    drawn,          \* every image drawn so far, in order
    err,            \* the exception raised, None when there is none
    pc              \* control point of map_series

rdvars == <<file_location, dirList, exclude, maps, elements, pmOrder, rdDatas, rdi, rdpc>>
msvars == <<datas, figure_grid, limits, arg_color_map, color_map, mesh, itr, gi, gj, gk,
            open, files, drawn, err, pc>>
vars == <<rdvars, msvars>>

\* Python's None where the value is otherwise a tuple, and where it is a string
None == <<>>
NoError == "None"
IndexError == <<"IndexError">>

\* ------------------------------------------------------------------------
\* Bounds of the model
\* ------------------------------------------------------------------------
MaxMeta == 3    \* most metadata (.pm) files in the directory
MaxMaps == 3    \* most data (.txt) files in the directory
MaxElems == 3   \* most element maps in a dataset
MaxDim == 3     \* largest rows / columns of a figure_grid

\* ------------------------------------------------------------------------
\* Python helpers
\* ------------------------------------------------------------------------
Range(s) == {s[n] : n \in 1..Len(s)}

\* str.split(sep) for a one-character separator
RECURSIVE SplitAcc(_, _, _, _)
SplitAcc(s, sep, cur, acc) ==
    IF s = <<>> THEN Append(acc, cur)
    ELSE IF Head(s) = sep THEN SplitAcc(Tail(s), sep, <<>>, Append(acc, cur))
    ELSE SplitAcc(Tail(s), sep, Append(cur, Head(s)), acc)

Split(s, sep) == SplitAcc(s, sep, <<>>, <<>>)

\* seq[-n]; IndexError stands for the exception
NegIndex(parts, n) ==
    IF Len(parts) >= n THEN parts[Len(parts) - n + 1] ELSE IndexError

EndsWith(s, suffix) ==
    /\ Len(s) >= Len(suffix)
    /\ SubSeq(s, Len(s) - Len(suffix) + 1, Len(s)) = suffix

\* dict operations
DictKeys(d) == [n \in 1..Len(d) |-> d[n][1]]
DictKeySet(d) == {d[n][1] : n \in 1..Len(d)}
DictHas(d, k) == k \in DictKeySet(d)
DictGet(d, k) == d[CHOOSE n \in 1..Len(d) : d[n][1] = k][2]
DictSet(d, k, v) ==
    IF DictHas(d, k)
    THEN [n \in 1..Len(d) |-> IF d[n][1] = k THEN <<k, v>> ELSE d[n]]
    ELSE Append(d, <<k, v>>)

\* all orderings of a finite set
Perms(S) == {s \in [1..Cardinality(S) -> S] : Range(s) = S}

\* ------------------------------------------------------------------------
\* read_data
\* ------------------------------------------------------------------------
BS == "\\"
\* directory prefixes: the driver's style (ending in a backslash) and a plain one
Dirs == { <<"m", ".", "2", BS>>, <<"a", "_", "b", BS>>, <<"d", "/">> }
Indexes == { <<"0", "1">>, <<"0", "2">>, <<"0", "3">> }
MetaIndexes == { <<"0", "1">>, <<"0", "2">> }
Labels == { <<"F", "e">>, <<"C", "r">> }
Tags == { <<"x">> }
PmExt == <<".", "p", "m">>
TxtExt == <<".", "t", "x", "t">>

MetaName(idx, lab) == idx \o <<".">> \o lab \o PmExt
DataName(idx, tag) == idx \o <<"_">> \o tag \o TxtExt
MetaNames == {MetaName(idx, lab) : idx \in MetaIndexes, lab \in Labels}
DataNames == {DataName(idx, tag) : idx \in Indexes, tag \in Tags}

\* glob.glob(file_location + "*" + ext): the matching paths, in any order
Glob(loc, listing, ext) ==
    Perms({loc \o name : name \in {f \in listing : EndsWith(f, ext)}})

\* x.split('.')[-3].split("\\")[-1]
MetaIndex(x) ==
    LET tok == NegIndex(Split(x, "."), 3)
    IN  IF tok = IndexError THEN tok ELSE NegIndex(Split(tok, BS), 1)

\* x.split('.')[-2]
MetaLabel(x) == NegIndex(Split(x, "."), 2)

DataIndexWholePath(file_name) == Split(file_name, "_")[1]

\* file_name.split("\\")[-1].split("_")[0]
DataIndex(file_name) == Split(NegIndex(Split(file_name, BS), 1), "_")[1]

KeptAlways(x, excl) == TRUE

\* x.split('.')[-2] not in exclude
Kept(x, excl) == MetaLabel(x) \notin excl

\* {index(x): label(x) for x in elements if label(x) not in exclude}
RECURSIVE ElementsDict(_, _, _)
ElementsDict(paths, excl, acc) ==
    IF paths = <<>> THEN acc
    ELSE LET x == Head(paths)
         IN  IF Kept(x, excl)
             THEN ElementsDict(Tail(paths), excl, DictSet(acc, MetaIndex(x), MetaLabel(x)))
             ELSE ElementsDict(Tail(paths), excl, acc)

MalformedMeta(paths, excl) ==
    \E n \in 1..Len(paths) :
        \/ MetaLabel(paths[n]) = IndexError
        \/ Kept(paths[n], excl) /\ MetaIndex(paths[n]) = IndexError

RdInit ==
    /\ file_location \in Dirs
    /\ \E ms \in SUBSET MetaNames, ds \in SUBSET DataNames :
          /\ Cardinality(ms) <= MaxMeta
          /\ Cardinality(ds) <= MaxMaps
          /\ dirList = ms \cup ds
    /\ exclude \in SUBSET Labels
    /\ maps = <<>>
    /\ elements = <<>>
    /\ pmOrder = <<>>
    /\ rdDatas = <<>>
    /\ rdi = 0
    /\ rdpc = "glob"

\* lines 31-35
RdGlob ==
    /\ rdpc = "glob"
    /\ maps' \in Glob(file_location, dirList, TxtExt)
    /\ elements' \in Glob(file_location, dirList, PmExt)
    /\ pmOrder' = elements'
    /\ rdpc' = "elements"
    /\ UNCHANGED <<file_location, dirList, exclude, rdDatas, rdi>>

\* lines 36-37
RdElements ==
    /\ rdpc = "elements"
    /\ IF MalformedMeta(elements, exclude)
       THEN /\ rdpc' = "raised"
            /\ UNCHANGED <<elements, rdDatas, rdi>>
       ELSE /\ elements' = ElementsDict(elements, exclude, <<>>)
            /\ rdDatas' = <<>>
            /\ rdi' = 1
            /\ rdpc' = "loop"
    /\ UNCHANGED <<file_location, dirList, exclude, maps, pmOrder>>

\* lines 39-42: a data file whose index is not a key of elements
RdSkip ==
    /\ rdpc = "loop"
    /\ rdi <= Len(maps)
    /\ ~DictHas(elements, DataIndex(maps[rdi]))
    /\ rdi' = rdi + 1
    /\ UNCHANGED <<file_location, dirList, exclude, maps, elements, pmOrder, rdDatas, rdpc>>

\* lines 39-43: the array loaded from the file is represented by its path
RdLoad ==
    /\ rdpc = "loop"
    /\ rdi <= Len(maps)
    /\ DictHas(elements, DataIndex(maps[rdi]))
    /\ rdDatas' = DictSet(rdDatas, DictGet(elements, DataIndex(maps[rdi])), maps[rdi])
    /\ rdi' = rdi + 1
    /\ UNCHANGED <<file_location, dirList, exclude, maps, elements, pmOrder, rdpc>>

\* line 44
RdReturn ==
    /\ rdpc = "loop"
    /\ rdi > Len(maps)
    /\ rdpc' = "done"
    /\ UNCHANGED <<file_location, dirList, exclude, maps, elements, pmOrder, rdDatas, rdi>>

MsIdle ==
    /\ datas = <<>>
    /\ figure_grid = None
    /\ limits = <<>>
    /\ arg_color_map = [type |-> "str", val |-> "Greys"]
    /\ color_map = arg_color_map
    /\ mesh = None
    /\ itr = 0
    /\ gi = 0
    /\ gj = 0
    /\ gk = 0
    /\ open = 0
    /\ files = {}
    /\ drawn = <<>>
    /\ err = NoError
    /\ pc = "idle"

SpecReadInit == RdInit /\ MsIdle

SpecReadNext ==
    \/ RdGlob /\ UNCHANGED msvars
    \/ RdElements /\ UNCHANGED msvars
    \/ RdSkip /\ UNCHANGED msvars
    \/ RdLoad /\ UNCHANGED msvars
    \/ RdReturn /\ UNCHANGED msvars

SpecRead == SpecReadInit /\ [][SpecReadNext]_vars

\* ------------------------------------------------------------------------
\* map_series
\* ------------------------------------------------------------------------
ElementNames == {"CP", "Fe", "Cu", "Mn"}
Shapes == { <<2, 3>>, <<3, 2>> }
label == "map"
extension == ".png"

\* the display ranges of the driver script
LimitsTable == << <<"CP", <<0, 1597>> >>, <<"Fe", <<700, 968>> >>, <<"Cu", <<20, 80>> >> >>
LimitsChoices == { <<>>, SubSeq(LimitsTable, 1, 1), LimitsTable }
ColorMapChoices == { [type |-> "str", val |-> "Greys"],
                     [type |-> "list", val |-> <<>>],
                     [type |-> "list", val |-> <<"A", "B">>] }

\* the dicts with 1..MaxElems distinct element keys, each with a shape
Datasets ==
    UNION { {d \in [1..n -> ElementNames \X Shapes] :
                \A a, b \in 1..n : a # b => d[a][1] # d[b][1]} : n \in 1..MaxElems }

Grids == {None} \cup ((1..MaxDim) \X (1..MaxDim))

\* shape of ndimage.rotate(values, -90)
Rotate(shape) == <<shape[2], shape[1]>>

\* shape of the arrays returned by np.meshgrid(arange(map_size[0]), arange(map_size[1]))
MeshShape(map_size) == <<map_size[2], map_size[1]>>

\* lines 109-118
RECURSIVE CycleColormap(_, _, _, _)
CycleColormap(keys, cm, index, acc) ==
    IF keys = <<>> THEN acc
    ELSE IF Head(keys) = "CP"
         THEN CycleColormap(Tail(keys), cm, index, DictSet(acc, "CP", "Greys"))
         ELSE CycleColormap(Tail(keys), cm, index + 1,
                            DictSet(acc, Head(keys), cm[(index % Len(cm)) + 1]))

\* lines 106-107
SameColormap(keys, name) == [n \in 1..Len(keys) |-> <<keys[n], name>>]

FileNameNoElement(lbl, key, ext) == lbl \o ext

\* label + "_" + key + extension
FileName(lbl, key, ext) == lbl \o "_" \o key \o ext

\* vmin / vmax passed to pcolormesh by lines 124-128 and 167-172
Bounds(key) == IF DictHas(limits, key) THEN DictGet(limits, key) ELSE None

N == Len(datas)
Key(n) == datas[n][1]
Shape(n) == datas[n][2]
rows == figure_grid[1]
columns == figure_grid[2]

MsInit ==
    /\ datas \in Datasets
    /\ figure_grid \in Grids
    /\ limits \in LimitsChoices
    /\ arg_color_map \in ColorMapChoices
    /\ color_map = arg_color_map
    /\ mesh = None
    /\ itr = 0
    /\ gi = 0
    /\ gj = 0
    /\ gk = 0
    /\ open = 0
    /\ files = {}
    /\ drawn = <<>>
    /\ err = NoError
    /\ pc = "start"

Raise(e) ==
    /\ pc' = "raised"
    /\ err' = e

\* lines 92-118, when the colormap list can be cycled or is a string
Prologue ==
    /\ pc = "start"
    /\ ~(color_map.type = "list" /\ color_map.val = <<>> /\ DictKeySet(datas) # {"CP"})
    /\ mesh' = MeshShape(Shape(1))
    /\ color_map' = [type |-> "dict",
                     val |-> IF color_map.type = "str"
                             THEN SameColormap(DictKeys(datas), color_map.val)
                             ELSE CycleColormap(DictKeys(datas), color_map.val, 0, <<>>)]
    /\ itr' = 1
    /\ pc' = "loop"
    /\ UNCHANGED <<datas, figure_grid, limits, arg_color_map, gi, gj, gk, open, files, drawn, err>>

\* line 116 with an empty list: index % 0
PrologueZeroDivision ==
    /\ pc = "start"
    /\ color_map.type = "list" /\ color_map.val = <<>> /\ DictKeySet(datas) # {"CP"}
    /\ mesh' = MeshShape(Shape(1))
    /\ Raise("ZeroDivisionError")
    /\ UNCHANGED <<datas, figure_grid, limits, arg_color_map, color_map, itr, gi, gj, gk, open, files, drawn>>

\* lines 120-123
IndivOpen ==
    /\ pc = "loop"
    /\ itr <= N
    /\ open' = open + 1
    /\ pc' = "draw"
    /\ UNCHANGED <<datas, figure_grid, limits, arg_color_map, color_map, mesh, itr, gi, gj, gk, files, drawn, err>>

\* lines 124-136
IndivDraw ==
    /\ pc = "draw"
    /\ Rotate(Shape(itr)) = mesh
    /\ drawn' = Append(drawn, [fig |-> "single", key |-> Key(itr),
                               cmap |-> DictGet(color_map.val, Key(itr)),
                               bounds |-> Bounds(Key(itr)), cell |-> None,
                               xlabel |-> TRUE, ylabel |-> TRUE])
    /\ pc' = "save"
    /\ UNCHANGED <<datas, figure_grid, limits, arg_color_map, color_map, mesh, itr, gi, gj, gk, open, files, err>>

\* lines 125/128: pcolormesh rejects an array whose shape is not the mesh's
IndivDrawTypeError ==
    /\ pc = "draw"
    /\ Rotate(Shape(itr)) # mesh
    /\ Raise("TypeError")
    /\ UNCHANGED <<datas, figure_grid, limits, arg_color_map, color_map, mesh, itr, gi, gj, gk, open, files, drawn>>

\* line 137
IndivSave ==
    /\ pc = "save"
    /\ files' = files \cup {FileName(label, Key(itr), extension)}
    /\ pc' = "close"
    /\ UNCHANGED <<datas, figure_grid, limits, arg_color_map, color_map, mesh, itr, gi, gj, gk, open, drawn, err>>

\* line 138
IndivClose ==
    /\ pc = "close"
    /\ open' = open - 1
    /\ itr' = itr + 1
    /\ pc' = "loop"
    /\ UNCHANGED <<datas, figure_grid, limits, arg_color_map, color_map, mesh, gi, gj, gk, files, drawn, err>>

\* line 140, figure_grid is None
ReturnNoGrid ==
    /\ pc = "loop"
    /\ itr > N
    /\ figure_grid = None
    /\ pc' = "returned"
    /\ UNCHANGED <<datas, figure_grid, limits, arg_color_map, color_map, mesh, itr, gi, gj, gk, open, files, drawn, err>>

\* lines 140-145
GridOpen ==
    /\ pc = "loop"
    /\ itr > N
    /\ figure_grid # None
    /\ open' = open + 1
    /\ pc' = "gridcp"
    /\ UNCHANGED <<datas, figure_grid, limits, arg_color_map, color_map, mesh, itr, gi, gj, gk, files, drawn, err>>

\* lines 147-156; pcolormesh accepted the same array at line 125/128, so the
\* shape test cannot fail here
GridCP ==
    /\ pc = "gridcp"
    /\ DictHas(datas, "CP")
    /\ Rotate(DictGet(datas, "CP")) = mesh
    /\ drawn' = Append(drawn, [fig |-> "all", key |-> "CP", cmap |-> "Greys_r",
                               bounds |-> None, cell |-> <<0, 0>>,
                               xlabel |-> FALSE, ylabel |-> TRUE])
    /\ gj' = 1
    /\ gi' = 0
    /\ gk' = 1
    /\ pc' = "gridloop"
    /\ UNCHANGED <<datas, figure_grid, limits, arg_color_map, color_map, mesh, itr, open, files, err>>

\* lines 157-159
GridNoCP ==
    /\ pc = "gridcp"
    /\ ~DictHas(datas, "CP")
    /\ gj' = 0
    /\ gi' = 0
    /\ gk' = 1
    /\ pc' = "gridloop"
    /\ UNCHANGED <<datas, figure_grid, limits, arg_color_map, color_map, mesh, itr, open, files, drawn, err>>

\* lines 161-163
GridSkipCP ==
    /\ pc = "gridloop"
    /\ gk <= N
    /\ Key(gk) = "CP"
    /\ gk' = gk + 1
    /\ UNCHANGED <<datas, figure_grid, limits, arg_color_map, color_map, mesh, itr, gi, gj, open, files, drawn, err, pc>>

InGrid(i, j) == i < rows /\ j < columns

\* lines 182-185
NextJ(j) == IF (j + 1) % columns = 0 THEN (j + 1) % columns ELSE j + 1
NextI(i, j) == IF (j + 1) % columns = 0 THEN i + 1 ELSE i

\* lines 161-187; the shape test was passed at line 125/128 already
GridPanel ==
    /\ pc = "gridloop"
    /\ gk <= N
    /\ Key(gk) # "CP"
    /\ InGrid(gi, gj)
    /\ Rotate(Shape(gk)) = mesh
    /\ drawn' = Append(drawn, [fig |-> "all", key |-> Key(gk),
                               cmap |-> DictGet(color_map.val, Key(gk)),
                               bounds |-> Bounds(Key(gk)), cell |-> <<gi, gj>>,
                               xlabel |-> (gi + 1 = rows), ylabel |-> (gj = 0)])
    /\ gj' = NextJ(gj)
    /\ gi' = NextI(gi, gj)
    /\ gk' = gk + 1
    /\ UNCHANGED <<datas, figure_grid, limits, arg_color_map, color_map, mesh, itr, open, files, err, pc>>

\* line 164: gs[i, j] outside the grid
GridPanelIndexError ==
    /\ pc = "gridloop"
    /\ gk <= N
    /\ Key(gk) # "CP"
    /\ ~InGrid(gi, gj)
    /\ Raise("IndexError")
    /\ UNCHANGED <<datas, figure_grid, limits, arg_color_map, color_map, mesh, itr, gi, gj, gk, open, files, drawn>>

\* line 189, then the function returns
GridSave ==
    /\ pc = "gridloop"
    /\ gk > N
    /\ files' = files \cup {FileName(label, "all", extension)}
    /\ pc' = "returned"
    /\ UNCHANGED <<datas, figure_grid, limits, arg_color_map, color_map, mesh, itr, gi, gj, gk, open, drawn, err>>

RdIdle ==
    /\ file_location = <<>>
    /\ dirList = {}
    /\ exclude = {}
    /\ maps = <<>>
    /\ elements = <<>>
    /\ pmOrder = <<>>
    /\ rdDatas = <<>>
    /\ rdi = 0
    /\ rdpc = "idle"

Init == MsInit /\ RdIdle

Next ==
    \/ Prologue /\ UNCHANGED rdvars
    \/ PrologueZeroDivision /\ UNCHANGED rdvars
    \/ IndivOpen /\ UNCHANGED rdvars
    \/ IndivDraw /\ UNCHANGED rdvars
    \/ IndivDrawTypeError /\ UNCHANGED rdvars
    \/ IndivSave /\ UNCHANGED rdvars
    \/ IndivClose /\ UNCHANGED rdvars
    \/ ReturnNoGrid /\ UNCHANGED rdvars
    \/ GridOpen /\ UNCHANGED rdvars
    \/ GridCP /\ UNCHANGED rdvars
    \/ GridNoCP /\ UNCHANGED rdvars
    \/ GridSkipCP /\ UNCHANGED rdvars
    \/ GridPanel /\ UNCHANGED rdvars
    \/ GridPanelIndexError /\ UNCHANGED rdvars
    \/ GridSave /\ UNCHANGED rdvars

Spec == Init /\ [][Next]_vars

\* ------------------------------------------------------------------------
\* Properties of read_data
\* ------------------------------------------------------------------------
Fe == <<"F", "e">>
Cr == <<"C", "r">>
I01 == <<"0", "1">>
I02 == <<"0", "2">>
X == <<"x">>

\* the directory seen as data, independently of the tokenisation
MetaEntries == {e \in MetaIndexes \X Labels : MetaName(e[1], e[2]) \in dirList}
DataIdx == {idx \in Indexes : \E tag \in Tags : DataName(idx, tag) \in dirList}
RdKeys == DictKeySet(rdDatas)

ExampleDir ==
    dirList = {MetaName(I01, Fe), MetaName(I02, Cr), DataName(I01, X), DataName(I02, X)}

\* C1: no key of the dataset returned by read_data is a label of exclude;
\* with metadata 01->Fe, 02->Cr, data files 01 and 02 and exclude=[Cr] the
\* returned dataset has exactly the key Fe.
C1_Exclusion ==
    /\ \A k \in RdKeys : k \notin exclude
    /\ (rdpc = "done" /\ ExampleDir /\ exclude = {Cr}) => RdKeys = {Fe}

C1_Witness == rdpc = "done" /\ ExampleDir /\ exclude = {Cr} /\ Len(rdDatas) = 1

\* C2 as stated: unmatched data files raise nothing and the returned keys are
\* exactly the labels of the non-excluded metadata entries whose index is
\* carried by at least one data file.
C2_Original ==
    /\ rdpc # "raised"
    /\ rdpc = "done" =>
          RdKeys = {e[2] : e \in {m \in MetaEntries : m[2] \notin exclude /\ m[1] \in DataIdx}}

\* position in discovery order of the metadata file (idx, lab); 0 when absent
PmPos(idx, lab) ==
    IF \E n \in 1..Len(pmOrder) : pmOrder[n] = file_location \o MetaName(idx, lab)
    THEN CHOOSE n \in 1..Len(pmOrder) : pmOrder[n] = file_location \o MetaName(idx, lab)
    ELSE 0

\* the non-excluded entry of an index that glob discovered last
LastEntry(e) ==
    /\ e[2] \notin exclude
    /\ \A o \in MetaEntries :
          (o[1] = e[1] /\ o[2] \notin exclude) => PmPos(o[1], o[2]) <= PmPos(e[1], e[2])

\* C2 amended: unmatched data files raise nothing, and the returned keys are
\* exactly the labels of the non-excluded metadata entries whose index is
\* carried by at least one data file, where of several non-excluded metadata
\* files with the same index only the one discovered last counts.
C2_Unmatched ==
    /\ rdpc # "raised"
    /\ rdpc = "done" =>
          RdKeys = {e[2] : e \in {m \in MetaEntries : LastEntry(m) /\ m[1] \in DataIdx}}

\* a data file without metadata entry was skipped and another one was loaded
C2_Witness ==
    /\ rdpc = "done"
    /\ \E idx \in DataIdx : \A lab \in Labels : <<idx, lab>> \notin MetaEntries
    /\ Len(rdDatas) >= 1
    /\ Len(maps) >= 2

\* ------------------------------------------------------------------------
\* Properties of map_series
\* ------------------------------------------------------------------------
Finished == pc \in {"returned", "raised"}
SameShape == \A a, b \in 1..N : Shape(a) = Shape(b)
HasGrid == figure_grid # None
CellsMatch == rows * columns = N
ListGiven == arg_color_map.type = "list" /\ arg_color_map.val # <<>>
AllFile == "map_all.png"
SingleFile == [k \in ElementNames |->
    CASE k = "CP" -> "map_CP.png" [] k = "Fe" -> "map_Fe.png"
      [] k = "Cu" -> "map_Cu.png" [] k = "Mn" -> "map_Mn.png"]

\* number of elements other than CP before position n of the dataset
Rank(n) == Cardinality({m \in 1..(n - 1) : Key(m) # "CP"})
PosOf(k) == CHOOSE n \in 1..N : Key(n) = k
Panels == {n \in 1..Len(drawn) : drawn[n].fig = "all"}

\* C3 as stated: with a non-empty list the k-th element other than CP gets
\* color_map[k mod len], CP gets the reversed grayscale colormap, and every
\* image of an element (single figure and combined figure) uses that colormap.
C3_Original ==
    ListGiven =>
        LET want(k) == IF k = "CP" THEN "Greys_r"
                       ELSE arg_color_map.val[(Rank(PosOf(k)) % Len(arg_color_map.val)) + 1]
        IN  /\ color_map.type = "dict" =>
                \A n \in 1..N : DictGet(color_map.val, Key(n)) = want(Key(n))
            /\ \A n \in 1..Len(drawn) : drawn[n].cmap = want(drawn[n].key)

\* C4: without figure_grid, map_series returns having written exactly the N
\* files <label>_<element><extension>, one per key, and no <label>_all file.
C4_NoGrid ==
    (pc = "returned" /\ ~HasGrid /\ SameShape) =>
        /\ files = {SingleFile[Key(n)] : n \in 1..N}
        /\ Cardinality(files) = N
        /\ AllFile \notin files

C4_Witness == pc = "returned" /\ ~HasGrid /\ SameShape /\ N >= 2 /\ Cardinality(files) = N

\* C5 as stated: a figure_grid whose cell count differs from the number of
\* maps makes the call fail without writing <label>_all; with a matching
\* cell count a call that returns has written <label>_all.
C5_Original ==
    (Finished /\ HasGrid) =>
        IF CellsMatch THEN (pc = "returned" => AllFile \in files)
        ELSE pc = "raised" /\ AllFile \notin files

\* C6 as stated: a call with a configuration error (cell count mismatch or
\* maps of differing shape) fails before any figure is drawn, so no file has
\* been written when it fails.
C6_Original ==
    (pc = "raised" /\ ((HasGrid /\ ~CellsMatch) \/ ~SameShape)) =>
        /\ files = {}
        /\ drawn = <<>>

\* C7 as stated: every image of an element that is a key of limits (the CP
\* panel included) is drawn with bounds limits[element], every other image
\* with no explicit bounds.
C7_Original ==
    \A n \in 1..Len(drawn) :
        drawn[n].bounds = IF \E m \in 1..Len(limits) : limits[m][1] = drawn[n].key
                          THEN limits[CHOOSE m \in 1..Len(limits) : limits[m][1] = drawn[n].key][2]
                          ELSE None

\* C8 as stated: at most one figure is open at any point of the call and no
\* figure opened by the call is still open when it returns, with and without
\* figure_grid.
C8_Original ==
    /\ open <= 1
    /\ pc = "returned" => open = 0

\* C9 as stated: when rows * columns equals the number of maps, CP occupies
\* cell (0,0), the k-th other element occupies the row-major cell k+1 (k when
\* CP is absent), every cell lies inside the grid, including grids with a
\* single column.
C9_Original ==
    (Finished /\ err \notin {"ZeroDivisionError", "TypeError"} /\ HasGrid /\ CellsMatch) =>
        /\ pc = "returned"
        /\ \A n \in 1..N :
              LET idx == IF Key(n) = "CP" THEN 0
                         ELSE Rank(n) + (IF DictHas(datas, "CP") THEN 1 ELSE 0)
              IN  \E p \in Panels :
                      /\ drawn[p].key = Key(n)
                      /\ drawn[p].cell = <<idx \div columns, idx % columns>>
        /\ \A p \in Panels : drawn[p].cell[1] < rows /\ drawn[p].cell[2] < columns

\* C10 as stated: a panel of the combined figure (the CP panel included) has
\* a y-axis label exactly when it is in column 0 and an x-axis label exactly
\* when it is in the last row.
C10_Original ==
    HasGrid =>
        \A p \in Panels :
            /\ drawn[p].ylabel <=> (drawn[p].cell[2] = 0)
            /\ drawn[p].xlabel <=> (drawn[p].cell[1] = rows - 1)

====
